---------------------------- MODULE Spec2Model ----------------------------
(***************************************************************************)
(* A model of api/parse.py: the FIT container decoder (FITParser and the   *)
(* entry point parse_fit_file).  Every parser instance is one index of the *)
(* state functions below; an instance steps through the header read, the   *)
(* record loop (one action per kind of loop iteration), the domain builder *)
(* and the entry point's filename patch.                                   *)
(*                                                                         *)
(* Python values are modelled by records of one shape,                     *)
(*     [t, hi, lo, s, l]                                                   *)
(* t names the Python type; an int n is hi * 65536 + lo (so that unsigned  *)
(* 32-bit values stay representable); s holds the characters of a str or   *)
(* the big-endian bytes of a float; l holds the elements of a list or the  *)
(* operands of a derived number.                                           *)
(***************************************************************************)
EXTENDS Integers, Sequences, FiniteSets, TLC

VARIABLES data, filename, pc, pos, end_pos, definitions, buffers, result, last, probe

vars == <<data, filename, pc, pos, end_pos, definitions, buffers, result, last, probe>>

(***************************************************************************)
(* Bounds of the model                                                     *)
(***************************************************************************)
\* most fragments concatenated into one record stream
MaxChunks == 3
\* most bytes by which the declared data_size overshoots the buffer
MaxExtra == 1
\* most fragments of a record stream parsed by several instances at once
MaxIsoChunks == 2
\* most fragments of a record stream followed to the end of its parse
MaxFairChunks == 2

\* fragments in a buffer whose declared data size ends anywhere in it
MaxWindowChunks == 2

\* the largest declared byte width of a field in the width specification
MaxWidth == 5

\* definition-and-data pairs in a buffer of the routing specification
MaxPairs == 2

(***************************************************************************)
(* Bytes and slices                                                        *)
(***************************************************************************)
Min(a, b) == IF a < b THEN a ELSE b

\* data[i] with a 0-based index i < len(data)
ByteAt(d, i) == d[i + 1]

\* data[a:b], clipped at the end of the buffer as Python clips it
Slice(d, a, b) == SubSeq(d, a + 1, Min(b, Len(d)))

Reverse(s) == [k \in 1..Len(s) |-> s[Len(s) + 1 - k]]

RECURSIVE Concat(_)
Concat(ss) == IF ss = <<>> THEN <<>> ELSE Head(ss) \o Concat(Tail(ss))

(***************************************************************************)
(* Python values                                                           *)
(***************************************************************************)
None == [t |-> "none", hi |-> 0, lo |-> 0, s |-> <<>>, l |-> <<>>]

IntV(h, w) == [t |-> "int", hi |-> h, lo |-> w, s |-> <<>>, l |-> <<>>]

StrV(chars) == [t |-> "str", hi |-> 0, lo |-> 0, s |-> chars, l |-> <<>>]

FloatV(be) == [t |-> "float", hi |-> 0, lo |-> 0, s |-> be, l |-> <<>>]

ListV(elems) == [t |-> "list", hi |-> 0, lo |-> 0, s |-> <<>>, l |-> elems]

\* a number or string derived by the domain builder: the operation and its operands
Expr(op, args) == [t |-> op, hi |-> 0, lo |-> 0, s |-> <<>>, l |-> args]

\* a dict keyed by field number
EmptyDict == [k \in {} |-> None]

DictGet(dict, k, default) == IF k \in DOMAIN dict THEN dict[k] ELSE default

DictPut(dict, k, v) == [j \in DOMAIN dict \cup {k} |-> IF j = k THEN v ELSE dict[j]]

(***************************************************************************)
(* BASE_TYPES and the lookup of a type tag                                 *)
(***************************************************************************)
TypeEntry(n, sz, f) == [name |-> n, size |-> sz, fmt |-> f]

BaseTypeKeys == (0..13) \cup {132, 133, 134, 139, 140}

BASE_TYPES(k) ==
    CASE k = 0 -> TypeEntry("enum", 1, "B")
      [] k = 1 -> TypeEntry("sint8", 1, "b")
      [] k = 2 -> TypeEntry("uint8", 1, "B")
      [] k = 3 -> TypeEntry("sint16", 2, "h")
      [] k = 4 -> TypeEntry("uint16", 2, "H")
      [] k = 5 -> TypeEntry("sint32", 4, "i")
      [] k = 6 -> TypeEntry("uint32", 4, "I")
      [] k = 7 -> TypeEntry("string", 1, "s")
      [] k = 8 -> TypeEntry("float32", 4, "f")
      [] k = 9 -> TypeEntry("float64", 8, "d")
      [] k = 10 -> TypeEntry("uint8z", 1, "B")
      [] k = 11 -> TypeEntry("uint16z", 2, "H")
      [] k = 12 -> TypeEntry("uint32z", 4, "I")
      [] k = 13 -> TypeEntry("byte", 1, "B")
      [] k = 132 -> TypeEntry("uint16", 2, "H")
      [] k = 133 -> TypeEntry("sint32", 4, "i")
      [] k = 134 -> TypeEntry("uint32", 4, "I")
      [] k = 139 -> TypeEntry("uint16z", 2, "H")
      [] k = 140 -> TypeEntry("uint32", 4, "I")

UnknownType == TypeEntry("unknown", 1, "B")

\* BASE_TYPES.get(key, ('unknown', 1, 'B'))
BaseTypesGet(key) == IF key \in BaseTypeKeys THEN BASE_TYPES(key) ELSE UnknownType

\* base_type & 0x1F
TypeMaskUnmasked(base_type) == base_type

TypeMask(base_type) == base_type % 32

\* type_info = BASE_TYPES.get(base_type & 0x1F, ('unknown', 1, 'B'))
type_info(base_type) == BaseTypesGet(TypeMask(base_type))

(***************************************************************************)
(* struct.unpack of one scalar                                             *)
(***************************************************************************)
U16(be) == be[1] * 256 + be[2]

\* the bytes most significant first: '<' is little-endian, '>' big-endian
BigEndian(endian, bytes) == IF endian = "<" THEN Reverse(bytes) ELSE bytes

\* struct.unpack(endian + fmt_char, bytes)[0], for len(bytes) = calcsize(fmt_char)
unpack_scalar(endian, fmt, bytes) ==
    LET be == BigEndian(endian, bytes)
    IN  CASE fmt = "B" -> IntV(0, be[1])
          [] fmt = "b" -> IF be[1] < 128 THEN IntV(0, be[1]) ELSE IntV(-1, 65280 + be[1])
          [] fmt = "H" -> IntV(0, U16(be))
          [] fmt = "h" -> IF U16(be) < 32768 THEN IntV(0, U16(be)) ELSE IntV(-1, U16(be))
          [] fmt = "I" -> IntV(U16(SubSeq(be, 1, 2)), U16(SubSeq(be, 3, 4)))
          [] fmt = "i" ->
               LET h == U16(SubSeq(be, 1, 2))
               IN  IntV(IF h < 32768 THEN h ELSE h - 65536, U16(SubSeq(be, 3, 4)))
          [] fmt = "f" -> FloatV(be)
          [] fmt = "d" -> FloatV(be)
          [] fmt = "s" -> StrV(be)

\* bytes.decode('ascii', errors='ignore'): bytes above 0x7F are dropped
decode_ascii_ignore(bytes) == SelectSeq(bytes, LAMBDA b : b < 128)

\* str.rstrip('\x00')
RECURSIVE rstrip_nul(_)
rstrip_nul(chars) ==
    IF chars # <<>> /\ chars[Len(chars)] = 0
    THEN rstrip_nul(SubSeq(chars, 1, Len(chars) - 1))
    ELSE chars

\* lines 191-206: the value of one field from its field_data slice
decode_field(endian, field, field_data) ==
    LET info == type_info(field.base_type)
        num_values == field.size \div info.size
        head == Slice(field_data, 0, num_values * info.size)
    IN  IF info.name = "string"
        THEN StrV(rstrip_nul(decode_ascii_ignore(field_data)))
        ELSE IF field.size = info.size
        THEN IF Len(field_data) = info.size
             THEN unpack_scalar(endian, info.fmt, field_data)
             ELSE None
        ELSE IF field.size > info.size
        THEN IF Len(head) = num_values * info.size
             THEN ListV([k \in 1..num_values |->
                     unpack_scalar(endian, info.fmt,
                         SubSeq(head, (k - 1) * info.size + 1, k * info.size))])
             ELSE None
        ELSE None

(***************************************************************************)
(* Exceptions: an operation either returns or throws                       *)
(***************************************************************************)
NoHeader == [header_size |-> 0, data_size |-> 0, signature |-> <<>>]

NoDefinition == [global_msg_num |-> 0, endian |-> "<", fields |-> <<>>]

\* the ASCII text '.FIT'
FitSignature == <<46, 70, 73, 84>>

(***************************************************************************)
(* _parse_header (lines 106-122)                                           *)
(***************************************************************************)
\* data[0] and data[1] index the buffer, the two unpacks need whole slices
parse_header(d) ==
    IF Len(d) < 2
    THEN [threw |-> TRUE, exc |-> "IndexError", header |-> NoHeader]
    ELSE IF Len(Slice(d, 2, 4)) # 2 \/ Len(Slice(d, 4, 8)) # 4
    THEN [threw |-> TRUE, exc |-> "struct.error", header |-> NoHeader]
    ELSE [threw |-> FALSE, exc |-> "",
          header |-> [header_size |-> ByteAt(d, 0),
                      data_size |-> ByteAt(d, 4) + 256 * ByteAt(d, 5)
                                    + 65536 * ByteAt(d, 6) + 16777216 * ByteAt(d, 7),
                      signature |-> decode_ascii_ignore(Slice(d, 8, 12))]]

\* line 91: header['signature'] != '.FIT'
signature_ok_prefix(signature) == Len(signature) >= 1 /\ signature[1] = FitSignature[1]

signature_ok(signature) == signature = FitSignature

(***************************************************************************)
(* _parse_definition (lines 139-170)                                       *)
(***************************************************************************)
\* the field triple k (counted from 0) of a definition whose body starts at p
field_triple(d, p, k) ==
    [field_def_num |-> ByteAt(d, p + 5 + 3 * k),
     size |-> ByteAt(d, p + 6 + 3 * k),
     base_type |-> ByteAt(d, p + 7 + 3 * k)]

\* p is the cursor after the discriminator byte; pos is the cursor when the
\* operation returned or threw
parse_definition(d, p) ==
    LET len == Len(d)
        arch == ByteAt(d, p + 1)
        endian == IF arch = 0 THEN "<" ELSE ">"
        num_fields == ByteAt(d, p + 4)
        whole == (len - (p + 5)) \div 3
    IN  IF p + 1 >= len
        THEN [threw |-> TRUE, exc |-> "IndexError", pos |-> p, def |-> NoDefinition]
        ELSE IF Len(Slice(d, p + 2, p + 4)) # 2
        THEN [threw |-> TRUE, exc |-> "struct.error", pos |-> p + 2, def |-> NoDefinition]
        ELSE IF p + 4 >= len
        THEN [threw |-> TRUE, exc |-> "IndexError", pos |-> p + 4, def |-> NoDefinition]
        ELSE IF p + 5 + 3 * num_fields > len
        THEN [threw |-> TRUE, exc |-> "IndexError", pos |-> p + 5 + 3 * whole,
              def |-> NoDefinition]
        ELSE [threw |-> FALSE, exc |-> "", pos |-> p + 5 + 3 * num_fields,
              def |-> [global_msg_num |->
                           U16(BigEndian(endian, Slice(d, p + 2, p + 4))),
                       endian |-> endian,
                       fields |-> [k \in 1..num_fields |-> field_triple(d, p, k - 1)]]]

\* lines 166-170: self.definitions[local_msg_type] = {...}
install_definition_merged(defs, slot, def) ==
    [s \in DOMAIN defs \cup {slot} |->
        IF s # slot THEN defs[s]
        ELSE IF slot \in DOMAIN defs
             THEN [def EXCEPT !.fields = defs[slot].fields \o def.fields]
             ELSE def]

install_definition_everywhere(defs, slot, def) ==
    [s \in DOMAIN defs \cup {slot} |-> def]

install_definition(defs, slot, def) ==
    [s \in DOMAIN defs \cup {slot} |-> IF s = slot THEN def ELSE defs[s]]

(***************************************************************************)
(* _parse_data_record (lines 172-211) and _store_record (lines 213-234)    *)
(***************************************************************************)
\* line 189: self.pos += field_size
advance_by_type_size(p, field) == p + type_info(field.base_type).size

advance_field(p, field) == p + field.size

\* lines 183-208, from field k on: the cursor and the record's fields
RECURSIVE decode_fields(_, _, _, _, _, _)
decode_fields(d, endian, fields, k, p, dict) ==
    IF k > Len(fields)
    THEN [pos |-> p, dict |-> dict]
    ELSE decode_fields(d, endian, fields, k + 1, advance_field(p, fields[k]),
             DictPut(dict, fields[k].field_def_num,
                 decode_field(endian, fields[k], Slice(d, p, p + fields[k].size))))

\* record = {'_msg_num': global_msg_num, field_def_num: value, ...}
parse_data_record(d, p, definition) ==
    LET r == decode_fields(d, definition.endian, definition.fields, 1, p, EmptyDict)
    IN  [pos |-> r.pos,
         record |-> [msg_num |-> definition.global_msg_num, fields |-> r.dict]]

\* self.file_id = {} and self.device_info = {}
EmptyRecord == [msg_num |-> -1, fields |-> EmptyDict]

EmptyBuffers ==
    [records |-> <<>>, sessions |-> <<>>, laps |-> <<>>, events |-> <<>>,
     file_id |-> EmptyRecord, device_info |-> EmptyRecord, monitoring |-> <<>>,
     stress |-> <<>>, sleep |-> <<>>, hrv |-> <<>>]

store_record_catch_all(b, msg_num, record) ==
    IF msg_num = 0 THEN [b EXCEPT !.file_id = record]
    ELSE [b EXCEPT !.records = Append(@, record)]

store_record_newest_first(b, msg_num, record) ==
    CASE msg_num = 0 -> [b EXCEPT !.file_id = record]
      [] msg_num = 20 -> [b EXCEPT !.records = <<record>> \o @]
      [] msg_num = 18 -> [b EXCEPT !.sessions = <<record>> \o @]
      [] msg_num = 19 -> [b EXCEPT !.laps = <<record>> \o @]
      [] msg_num = 21 -> [b EXCEPT !.events = <<record>> \o @]
      [] msg_num = 23 -> [b EXCEPT !.device_info = record]
      [] msg_num = 55 -> [b EXCEPT !.monitoring = <<record>> \o @]
      [] msg_num = 227 -> [b EXCEPT !.stress = <<record>> \o @]
      [] msg_num = 275 -> [b EXCEPT !.sleep = <<record>> \o @]
      [] msg_num = 78 -> [b EXCEPT !.hrv = <<record>> \o @]
      [] OTHER -> b

store_record(b, msg_num, record) ==
    CASE msg_num = 0 -> [b EXCEPT !.file_id = record]
      [] msg_num = 20 -> [b EXCEPT !.records = Append(@, record)]
      [] msg_num = 18 -> [b EXCEPT !.sessions = Append(@, record)]
      [] msg_num = 19 -> [b EXCEPT !.laps = Append(@, record)]
      [] msg_num = 21 -> [b EXCEPT !.events = Append(@, record)]
      [] msg_num = 23 -> [b EXCEPT !.device_info = record]
      [] msg_num = 55 -> [b EXCEPT !.monitoring = Append(@, record)]
      [] msg_num = 227 -> [b EXCEPT !.stress = Append(@, record)]
      [] msg_num = 275 -> [b EXCEPT !.sleep = Append(@, record)]
      [] msg_num = 78 -> [b EXCEPT !.hrv = Append(@, record)]
      [] OTHER -> b

(***************************************************************************)
(* _parse_record (lines 124-137): the discriminator byte                   *)
(***************************************************************************)
\* header & 0x80
is_compressed(header) == header >= 128

\* header & 0x40
is_definition(header) == (header \div 64) % 2 = 1

\* (header >> 5) & 0x03
compressed_slot(header) == (header \div 32) % 4

\* header & 0x0F
plain_slot(header) == header % 16

record_kind_definition_first(header) ==
    IF is_definition(header) THEN "definition"
    ELSE IF is_compressed(header) THEN "compressed"
    ELSE "data"

record_kind(header) ==
    IF is_compressed(header) THEN "compressed"
    ELSE IF is_definition(header) THEN "definition"
    ELSE "data"

local_msg_type(header) ==
    IF is_compressed(header) THEN compressed_slot(header) ELSE plain_slot(header)

\* line 127: self.pos += 1, past the discriminator byte
after_header_none(p) == p

after_header(p) == p + 1

\* line 100: except Exception: self.pos += 1
resync_stuck(p) == p

resync(p) == p + 1

(***************************************************************************)
(* Python arithmetic on decoded values, as the domain builder uses it      *)
(***************************************************************************)
Ok(v) == [exc |-> "", v |-> v]

Raise(e) == [exc |-> e, v |-> None]

\* the exception of the first computation that throws, "" when none does
RECURSIVE FirstExc(_)
FirstExc(rs) ==
    IF rs = <<>> THEN ""
    ELSE IF Head(rs).exc # "" THEN Head(rs).exc
    ELSE FirstExc(Tail(rs))

\* a < b for byte strings of one length, most significant byte first
RECURSIVE SeqLess(_, _)
SeqLess(a, b) ==
    IF a = <<>> THEN FALSE
    ELSE IF Head(a) # Head(b) THEN Head(a) < Head(b)
    ELSE SeqLess(Tail(a), Tail(b))

\* an IEEE float without its sign bit, and its classes
FloatMag(be) == [k \in 1..Len(be) |-> IF k = 1 THEN be[1] % 128 ELSE be[k]]

FloatNegative(be) == be[1] >= 128

InfMag(be) == IF Len(be) = 4 THEN <<127, 128, 0, 0>> ELSE <<127, 240, 0, 0, 0, 0, 0, 0>>

FloatIsZero(be) == FloatMag(be) = [k \in 1..Len(be) |-> 0]

FloatIsInf(be) == FloatMag(be) = InfMag(be)

FloatIsNaN(be) == SeqLess(InfMag(be), FloatMag(be))

\* the float32 and float64 images of the small integers the code compares with
FloatOfInt(n, width) ==
    CASE n = 0 -> [k \in 1..width |-> 0]
      [] n = 1 -> IF width = 4 THEN <<63, 128, 0, 0>> ELSE <<63, 240, 0, 0, 0, 0, 0, 0>>
      [] n = 2 -> IF width = 4 THEN <<64, 0, 0, 0>> ELSE <<64, 0, 0, 0, 0, 0, 0, 0>>
      [] n = 4 -> IF width = 4 THEN <<64, 128, 0, 0>> ELSE <<64, 16, 0, 0, 0, 0, 0, 0>>
      [] n = 5 -> IF width = 4 THEN <<64, 160, 0, 0>> ELSE <<64, 20, 0, 0, 0, 0, 0, 0>>
      [] n = 11 -> IF width = 4 THEN <<65, 48, 0, 0>> ELSE <<64, 38, 0, 0, 0, 0, 0, 0>>
      [] n = 17 -> IF width = 4 THEN <<65, 136, 0, 0>> ELSE <<64, 49, 0, 0, 0, 0, 0, 0>>
      [] n = 37 -> IF width = 4 THEN <<66, 20, 0, 0>> ELSE <<64, 66, 128, 0, 0, 0, 0, 0>>

\* value == n for a small integer n (an int, or a float that equals it)
py_equals_int(v, n) ==
    CASE v.t = "int" -> v.hi = 0 /\ v.lo = n
      [] v.t = "float" ->
           IF n = 0 THEN FloatIsZero(v.s) ELSE v.s = FloatOfInt(n, Len(v.s))
      [] OTHER -> FALSE

\* bool(value)
py_truthy(v) ==
    CASE v.t = "none" -> FALSE
      [] v.t = "int" -> ~(v.hi = 0 /\ v.lo = 0)
      [] v.t = "float" -> ~FloatIsZero(v.s)
      [] v.t = "str" -> v.s # <<>>
      [] v.t = "list" -> v.l # <<>>
      [] OTHER -> TRUE

\* the least float64 magnitude whose quotient by k (k = 100, 1000 or 100 * 1000)
\* is not rounded to 0.0
LeastQuotient(k) ==
    CASE k = 100 -> <<0, 0, 0, 0, 0, 0, 0, 51>>
      [] k = 1000 -> <<0, 0, 0, 0, 0, 0, 1, 245>>
      [] k = 100000 -> <<0, 0, 0, 0, 0, 0, 195, 131>>

\* value / k == 0.0 for a truthy number: only a tiny float64 underflows
quotient_is_zero(v, k) ==
    v.t = "float" /\ Len(v.s) = 8 /\ SeqLess(FloatMag(v.s), LeastQuotient(k))

\* value / k > 0 for a truthy number
quotient_positive(v, k) ==
    CASE v.t = "int" -> v.hi > 0 \/ (v.hi = 0 /\ v.lo > 0)
      [] v.t = "float" ->
           ~FloatNegative(v.s) /\ ~FloatIsNaN(v.s) /\ ~quotient_is_zero(v, k)
      [] OTHER -> FALSE

\* value / k where value is truthy: a str or a list has no division
py_div(v, k) ==
    IF v.t \in {"int", "float"} THEN Ok(Expr("div", <<v, IntV(0, k)>>))
    ELSE Raise("TypeError")

\* value / k if value else None
div_or_none(v, k) == IF py_truthy(v) THEN py_div(v, k) ELSE Ok(None)

\* the largest float magnitudes timedelta(seconds=x) and FIT_EPOCH + it accept
MaxSecondsAfter(be) ==
    IF Len(be) = 4 THEN <<82, 107, 105, 91>> ELSE <<66, 77, 109, 43, 122, 191, 255, 255>>

MaxSecondsBefore(be) ==
    IF Len(be) = 4 THEN <<81, 105, 210, 244>> ELSE <<66, 45, 58, 94, 134, 0, 0, 0>>

\* FIT_EPOCH + timedelta(seconds=value), under the name op
epoch_plus(op, v) ==
    CASE v.t = "int" -> Ok(Expr(op, <<v>>))
      [] v.t = "float" ->
           IF FloatIsNaN(v.s) THEN Raise("ValueError")
           ELSE IF FloatNegative(v.s) /\ SeqLess(MaxSecondsBefore(v.s), FloatMag(v.s))
           THEN Raise("OverflowError")
           ELSE IF ~FloatNegative(v.s) /\ SeqLess(MaxSecondsAfter(v.s), FloatMag(v.s))
           THEN Raise("OverflowError")
           ELSE Ok(Expr(op, <<v>>))
      [] OTHER -> Raise("TypeError")

\* timestamp == 0xFFFFFFFF
is_invalid_timestamp(v) ==
    \/ v.t = "int" /\ v.hi = 65535 /\ v.lo = 65535
    \/ v.t = "float" /\ v.s = <<65, 239, 255, 255, 255, 224, 0, 0>>

\* fit_timestamp_to_iso (lines 50-55)
fit_timestamp_to_iso(v) ==
    IF v.t = "none" \/ is_invalid_timestamp(v) THEN Ok(None)
    ELSE epoch_plus("iso", v)

\* semicircles_to_degrees (lines 58-62)
semicircles_to_degrees(v) ==
    IF v.t = "none" THEN Ok(None)
    ELSE IF v.t \in {"int", "float"} THEN Ok(Expr("degrees", <<v>>))
    ELSE Raise("TypeError")

\* data[:1000]
IdPrefixLen == 1000

\* generate_activity_id (lines 65-68): the digest stands for its preimage
generate_activity_id(d, start_time) ==
    [t |-> "sha256", hi |-> 0, lo |-> 0, s |-> Slice(d, 0, IdPrefixLen),
     l |-> IF start_time.t = "none" THEN <<>> ELSE <<start_time>>]

\* SPORT_TYPES (lines 39-47)
SportKeys == {0, 1, 2, 5, 11, 17, 37}

SPORT_TYPES(k) ==
    CASE k = 0 -> "other"
      [] k = 1 -> "running"
      [] k = 2 -> "cycling"
      [] k = 5 -> "swimming"
      [] k = 11 -> "walking"
      [] k = 17 -> "hiking"
      [] k = 37 -> "indoor_running"

\* SPORT_TYPES.get(sport_num, 'other'): a list is unhashable
sport_lookup(v) ==
    IF v.t = "list" THEN [exc |-> "TypeError", name |-> ""]
    ELSE IF \E k \in SportKeys : py_equals_int(v, k)
    THEN [exc |-> "", name |-> SPORT_TYPES(CHOOSE k \in SportKeys : py_equals_int(v, k))]
    ELSE [exc |-> "", name |-> "other"]

(***************************************************************************)
(* The domain builder (lines 236-415)                                      *)
(***************************************************************************)
\* record.get(k)
Get(rec, k) == DictGet(rec.fields, k, None)

\* 1000 / speed if speed and speed > 0 else None, for speed = raw / 1000 or None
pace_of(raw) ==
    IF py_truthy(raw) /\ quotient_positive(raw, 1000)
    THEN Expr("pace", <<raw>>)
    ELSE None

\* lines 282-298: one track point
build_record(rec) ==
    LET timestamp == fit_timestamp_to_iso(Get(rec, 253))
        speed == div_or_none(Get(rec, 6), 1000)
        distance == div_or_none(Get(rec, 5), 100)
        altitude == IF py_truthy(Get(rec, 2))
                    THEN IF Get(rec, 2).t \in {"int", "float"}
                         THEN Ok(Expr("altitude", <<Get(rec, 2)>>))
                         ELSE Raise("TypeError")
                    ELSE Ok(None)
        lat == semicircles_to_degrees(Get(rec, 0))
        lon == semicircles_to_degrees(Get(rec, 1))
    IN  [exc |-> FirstExc(<<timestamp, speed, distance, altitude, lat, lon>>),
         v |-> [timestamp |-> timestamp.v, heartRate |-> Get(rec, 3),
                speed |-> speed.v, distance |-> distance.v,
                cadence |-> Get(rec, 4), altitude |-> altitude.v,
                lat |-> lat.v, lon |-> lon.v, power |-> Get(rec, 7),
                pace |-> pace_of(Get(rec, 6))]]

\* lines 305-320: one lap; avgPace divides by distance / 1000, which a tiny
\* float64 distance rounds to 0.0
build_lap(lap, i) ==
    LET startTime == fit_timestamp_to_iso(Get(lap, 2))
        totalTime == div_or_none(Get(lap, 7), 1000)
        distance == div_or_none(Get(lap, 9), 100)
        has_pace == /\ py_truthy(Get(lap, 9)) /\ ~quotient_is_zero(Get(lap, 9), 100)
                    /\ py_truthy(Get(lap, 7)) /\ ~quotient_is_zero(Get(lap, 7), 1000)
                    /\ quotient_positive(Get(lap, 9), 100)
        avgPace == IF FirstExc(<<startTime, totalTime, distance>>) # "" \/ ~has_pace
                   THEN Ok(None)
                   ELSE IF quotient_is_zero(Get(lap, 9), 100000)
                   THEN Raise("ZeroDivisionError")
                   ELSE Ok(Expr("avgPace", <<Get(lap, 7), Get(lap, 9)>>))
    IN  [exc |-> FirstExc(<<startTime, totalTime, distance, avgPace>>),
         v |-> [index |-> i, startTime |-> startTime.v, totalTime |-> totalTime.v,
                distance |-> distance.v, avgHeartRate |-> Get(lap, 15),
                maxHeartRate |-> Get(lap, 16), avgCadence |-> Get(lap, 17),
                calories |-> Get(lap, 11), avgPace |-> avgPace.v]]

\* value / k if value else fallback (lines 325, 326, 336)
div_or_else(v, k, fallback) == IF py_truthy(v) THEN py_div(v, k) ELSE Ok(fallback)

\* x > 0 for x = value / k if value else 0
aggregate_positive(v, k) == py_truthy(v) /\ quotient_positive(v, k)

\* line 267: session = self.sessions[0]
last_session(sessions) == sessions[Len(sessions)]

first_session(sessions) == sessions[1]

\* _build_activity (lines 262-365) on a parser with at least one session
build_activity(d, b) ==
    LET session == first_session(b.sessions)
        sport == sport_lookup(DictGet(session.fields, 5, IntV(0, 0)))
        start_time == fit_timestamp_to_iso(Get(session, 2))
        timestamp == fit_timestamp_to_iso(Get(session, 253))
        records == [k \in 1..Len(b.records) |-> build_record(b.records[k])]
        laps == [k \in 1..Len(b.laps) |-> build_lap(b.laps[k], k)]
        total_time == div_or_else(Get(session, 7), 1000, IntV(0, 0))
        total_distance == div_or_else(Get(session, 9), 100, IntV(0, 0))
        movingTime == div_or_else(Get(session, 8), 1000, total_time.v)
        avgSpeed == div_or_none(Get(session, 14), 1000)
        maxSpeed == div_or_none(Get(session, 15), 1000)
        has_pace == aggregate_positive(Get(session, 9), 100)
                    /\ aggregate_positive(Get(session, 7), 1000)
        early == FirstExc(<<sport, start_time, timestamp>> \o records \o laps
                          \o <<total_time, total_distance, movingTime, avgSpeed, maxSpeed>>)
        avgPace == IF early # "" \/ ~has_pace THEN Ok(None)
                   ELSE IF quotient_is_zero(Get(session, 9), 100000)
                   THEN Raise("ZeroDivisionError")
                   ELSE Ok(Expr("avgPace", <<Get(session, 7), Get(session, 9)>>))
    IN  [exc |-> IF early # "" THEN early ELSE avgPace.exc,
         v |-> [id |-> generate_activity_id(d, start_time.v),
                filename |-> "",
                sport |-> IF sport.name = "indoor_running" THEN "running" ELSE sport.name,
                name |-> "",
                startTime |-> start_time.v,
                endTime |-> timestamp.v,
                totalTime |-> total_time.v,
                movingTime |-> movingTime.v,
                totalDistance |-> total_distance.v,
                avgHeartRate |-> Get(session, 16),
                maxHeartRate |-> Get(session, 17),
                minHeartRate |-> Get(session, 64),
                avgSpeed |-> avgSpeed.v,
                maxSpeed |-> maxSpeed.v,
                avgCadence |-> Get(session, 18),
                maxCadence |-> Get(session, 19),
                totalAscent |-> Get(session, 22),
                totalDescent |-> Get(session, 23),
                calories |-> Get(session, 11),
                avgPower |-> Get(session, 20),
                maxPower |-> Get(session, 21),
                records |-> [k \in 1..Len(records) |-> records[k].v],
                laps |-> [k \in 1..Len(laps) |-> laps[k].v],
                avgPace |-> avgPace.v,
                maxPace |-> pace_of(Get(session, 15))]]

\* the date of the first sample (lines 375-378 and 401-405)
date_of(samples) ==
    IF samples = <<>> \/ ~py_truthy(Get(samples[1], 253)) THEN Ok(None)
    ELSE epoch_plus("date", Get(samples[1], 253))

\* s.get(0) is not None and s.get(0) >= 0 (line 381): a str or a list has no order
stress_test(v) ==
    CASE v.t = "none" -> [exc |-> "", keep |-> FALSE]
      [] v.t = "int" -> [exc |-> "", keep |-> v.hi >= 0]
      [] v.t = "float" ->
           [exc |-> "", keep |-> FloatIsZero(v.s) \/ (~FloatNegative(v.s) /\ ~FloatIsNaN(v.s))]
      [] OTHER -> [exc |-> "TypeError", keep |-> FALSE]

RECURSIVE stress_values(_)
stress_values(samples) ==
    IF samples = <<>> THEN <<>>
    ELSE (IF stress_test(Get(Head(samples), 0)).keep THEN <<Get(Head(samples), 0)>> ELSE <<>>)
         \o stress_values(Tail(samples))

aggregate(op, values) == IF values = <<>> THEN None ELSE Expr(op, values)

\* _build_wellness (lines 367-393)
build_wellness(b) ==
    LET date == date_of(b.monitoring)
        tests == [k \in 1..Len(b.stress) |-> stress_test(Get(b.stress[k], 0))]
        values == stress_values(b.stress)
    IN  [exc |-> FirstExc(<<date>> \o tests),
         v |-> [date |-> date.v, stressAvg |-> aggregate("avg", values),
                stressMax |-> aggregate("max", values),
                stressMin |-> aggregate("min", values),
                restingHR |-> None, hrv |-> None, steps |-> None,
                activeCalories |-> None, totalCalories |-> None]]

\* _build_sleep (lines 395-415)
build_sleep(b) ==
    LET date == date_of(b.sleep)
    IN  [exc |-> date.exc,
         v |-> [date |-> date.v, sleepScore |-> None, totalSleepTime |-> None,
                deepSleep |-> None, lightSleep |-> None, remSleep |-> None,
                awakeTime |-> None]]

\* what parse returns: a success payload, an error payload, or (never, in the
\* code as written) an exception that leaves the entry point
ErrorResult(msg) ==
    [kind |-> "error", error |-> msg, file_type |-> None, activity |-> <<>>,
     wellness |-> <<>>, sleep |-> <<>>]

Raised(msg) ==
    [kind |-> "raised", error |-> msg, file_type |-> None, activity |-> <<>>,
     wellness |-> <<>>, sleep |-> <<>>]

NoResult ==
    [kind |-> "none", error |-> "", file_type |-> None, activity |-> <<>>,
     wellness |-> <<>>, sleep |-> <<>>]

\* line 103: except Exception as e: return {'error': str(e)}
parse_uncaught(msg) == Raised(msg)

parse_catch(msg) == ErrorResult(msg)

\* _build_result (lines 236-260); a section that is None is the empty sequence
build_result(d, b) ==
    LET file_type == DictGet(b.file_id.fields, 0, IntV(0, 0))
        want_activity == (py_equals_int(file_type, 4) \/ b.sessions # <<>>)
                         /\ b.sessions # <<>>
        activity == IF want_activity THEN build_activity(d, b) ELSE Ok(None)
        want_wellness == b.monitoring # <<>> \/ b.stress # <<>>
        wellness == IF activity.exc = "" /\ want_wellness THEN build_wellness(b) ELSE Ok(None)
        want_sleep == b.sleep # <<>>
        sleep == IF activity.exc = "" /\ wellness.exc = "" /\ want_sleep
                 THEN build_sleep(b) ELSE Ok(None)
        exc == FirstExc(<<activity, wellness, sleep>>)
    IN  IF exc # "" THEN parse_catch(exc)
        ELSE [kind |-> "ok", error |-> "", file_type |-> file_type,
              activity |-> IF want_activity THEN <<activity.v>> ELSE <<>>,
              wellness |-> IF want_wellness THEN <<wellness.v>> ELSE <<>>,
              sleep |-> IF want_sleep THEN <<sleep.v>> ELSE <<>>]

(***************************************************************************)
(* Input buffers                                                           *)
(***************************************************************************)
\* definition, slot 0, little-endian, session (18): sport (5) as one uint8
DefSession == <<64, 0, 0, 18, 0, 1, 5, 1, 2>>

\* definition, slot 0, big-endian, track point (20): speed (6) as one uint16
DefRecordBE == <<64, 0, 1, 0, 20, 1, 6, 2, 132>>

\* definition, slot 0, little-endian, session (18): sport (5) as two uint8
DefSessionArray == <<64, 0, 0, 18, 0, 1, 5, 2, 2>>

\* definition, slot 1, little-endian, an identity no buffer takes (99): field 0
\* as one enum; and a data record on slot 1
UnknownPair == <<65, 0, 0, 99, 0, 1, 0, 1, 0, 1, 7>>

\* a definition cut after its architecture byte
DefTruncated == <<64, 0, 0>>

\* data on slot 0, and data on slot 0 under a compressed-timestamp header
DataPlain == <<0, 1, 2>>

DataCompressed == <<128, 1, 2>>

\* data on slot 0 with a single payload byte
DataShort == <<0, 1>>

Chunks ==
    {DefSession, DefRecordBE, DefSessionArray, UnknownPair, DefTruncated,
     DataPlain, DataCompressed, DataShort}

\* the record streams of at most n fragments drawn from chunks
RECURSIVE Bodies(_, _)
Bodies(chunks, n) ==
    IF n = 0 THEN {<<>>}
    ELSE LET shorter == Bodies(chunks, n - 1)
         IN  shorter \cup {c \o b : c \in chunks, b \in shorter}

HeaderSizes == {12, 14}

\* the preamble: header size, protocol version, profile version, data size,
\* signature, and padding up to the header size
Preamble(header_size, data_size, signature) ==
    <<header_size, 16, 0, 0, data_size % 256, data_size \div 256, 0, 0>>
    \o signature \o [k \in 1..(header_size - 12) |-> 0]

\* buffers with a good preamble; data_size covers the stream, the two checksum
\* bytes it ends with, and up to MaxExtra bytes the buffer does not hold
GoodInputs(n) ==
    {Preamble(h, Len(b) + 2 + x, FitSignature) \o b :
        h \in HeaderSizes, b \in Bodies(Chunks, n), x \in 0..MaxExtra}

\* buffers too short for the preamble, or with another signature
BadSignatures == {<<46, 70, 73, 85>>, <<46, 70, 201, 84>>, <<70, 73, 84, 46>>}

BadInputs ==
    {SubSeq(Preamble(12, 2, FitSignature), 1, n) : n \in {0, 1, 3, 7, 11}}
    \cup {Preamble(12, Len(b) + 2, sig) \o b : sig \in BadSignatures, b \in Bodies(Chunks, 1)}

Inputs == GoodInputs(MaxChunks) \cup BadInputs

Filenames == {"run.fit"}

\* every value of a byte: of a type tag, of a discriminator byte
Bytes == 0..255

\* the buffers several instances parse side by side
IsoChunks == {DefSession, DataPlain, DataCompressed}

IsoInputs ==
    {Preamble(12, Len(b) + 2 + x, FitSignature) \o b :
        b \in Bodies(IsoChunks, MaxIsoChunks), x \in {0, 1}}

\* buffers whose preamble declares a data size of 2 + w bytes, for every w up
\* to one more than the bytes that follow the preamble
WindowInputs ==
    UNION {{Preamble(12, 2 + w, FitSignature) \o b : w \in 0..(Len(b) + 1)} :
              b \in Bodies(IsoChunks, MaxWindowChunks)}

\* the slots a compressed-timestamp header can address
HeaderSlots == 0..3

\* a session definition on the slot, sport (5) as one uint8, and then a record
\* under the discriminator byte header
HeaderPair(slot, header) == <<64 + slot, 0, 0, 18, 0, 1, 5, 1, 2>> \o <<header, 1, 2>>

HeaderInputs ==
    {Preamble(12, Len(b) + 2 + x, FitSignature) \o b :
        b \in {HeaderPair(slot, header) : slot \in HeaderSlots, header \in Bytes},
        x \in 0..MaxExtra}

\* type tags of natural width 1, 2 and 4, and the text type
WidthTags == {2, 132, 134, 7}

\* a track-point definition (20) on slot 0 with byte order arch: field 3 with
\* byte width w and type tag, then field 4 as one uint8; and a data record
\* under the discriminator byte header with the bytes 1..w and the byte 9
WidthPair(arch, w, tag, header) ==
    <<64, 0, arch>> \o (IF arch = 0 THEN <<20, 0>> ELSE <<0, 20>>)
    \o <<2, 3, w, tag, 4, 1, 2>>
    \o <<header>> \o [k \in 1..w |-> k] \o <<9>>

WidthInputs ==
    {Preamble(12, Len(b) + 2 + x, FitSignature) \o b :
        b \in {WidthPair(arch, w, tag, header) :
                  arch \in {0, 1}, w \in 0..MaxWidth, tag \in WidthTags,
                  header \in {0, 128}},
        x \in 0..MaxExtra}

\* the identities _store_record routes, and one it does not
RoutedIds == {0, 18, 19, 20, 21, 23, 55, 78, 227, 275, 99}

\* the field a message of the identity carries here: avg_speed of a session,
\* total_distance of a lap, speed of a track point, the timestamp of a
\* monitoring or sleep sample, field 0 (type, stress level) of the others
RoutedField(id) ==
    CASE id = 18 -> 14
      [] id = 19 -> 9
      [] id = 20 -> 6
      [] id \in {55, 275} -> 253
      [] OTHER -> 0

RoutedValues == {0, 4}

\* a definition on slot 0, little-endian, of the identity with its field as one
\* uint8, and a data record on slot 0 with the value: under a plain header for
\* the value 0, under a compressed-timestamp header for any other
TypedPair(id, v) ==
    <<64, 0, 0, id % 256, id \div 256, 1, RoutedField(id), 1, 2>>
    \o <<IF v = 0 THEN 0 ELSE 128, v>>

TypedPairs == {TypedPair(id, v) : id \in RoutedIds, v \in RoutedValues}

RoutedInputs ==
    {Preamble(12, Len(b) + 2 + x, FitSignature) \o b :
        b \in Bodies(TypedPairs, MaxPairs), x \in 0..MaxExtra}

(***************************************************************************)
(* State                                                                   *)
(***************************************************************************)
Instances == DOMAIN pc

EmptyDefinitions == [s \in {} |-> NoDefinition]

\* the history of the record loop: the number n of iterations so far; of the
\* last one its kind, the offset of its discriminator byte, its slot, whether
\* it threw, the cursor when the record returned or threw, and the record it
\* decoded; and the offsets of the definition records decoded completely
NoLast ==
    [n |-> 0, kind |-> "none", start |-> 0, slot |-> 0, threw |-> FALSE, at |-> 0,
     record |-> EmptyRecord, installs |-> <<>>]

Iteration(prev, kind, start, slot, threw, at, record) ==
    [n |-> prev.n + 1, kind |-> kind, start |-> start, slot |-> slot, threw |-> threw,
     at |-> at, record |-> record,
     installs |-> IF kind = "definition" /\ ~threw
                  THEN Append(prev.installs, start) ELSE prev.installs]

NoProbe == [tag |-> 0, twin |-> 0, done |-> TRUE, info |-> UnknownType, twin_info |-> UnknownType]

\* FITParser.__init__ (lines 72-85) for the instances in ids
InitParsers(ids, d, f) ==
    /\ data = [i \in ids |-> d[i]]
    /\ filename = [i \in ids |-> f]
    /\ pc = [i \in ids |-> "start"]
    /\ pos = [i \in ids |-> 0]
    /\ end_pos = [i \in ids |-> 0]
    /\ definitions = [i \in ids |-> EmptyDefinitions]
    /\ buffers = [i \in ids |-> EmptyBuffers]
    /\ result = [i \in ids |-> NoResult]
    /\ last = [i \in ids |-> NoLast]

Init ==
    /\ \E d \in Inputs, f \in Filenames : InitParsers({1}, [i \in {1} |-> d], f)
    /\ probe = NoProbe

\* one parser, on a buffer of at most MaxFairChunks fragments
InitFair ==
    /\ \E d \in GoodInputs(MaxFairChunks) \cup BadInputs, f \in Filenames :
          InitParsers({1}, [i \in {1} |-> d], f)
    /\ probe = NoProbe

\* two parser instances, each on a buffer of its own
InitIso ==
    /\ \E d1 \in IsoInputs, d2 \in IsoInputs, f \in Filenames :
          InitParsers({1, 2}, <<d1, d2>>, f)
    /\ probe = NoProbe

\* one parser, on a buffer whose declared data size ends anywhere
InitWindow ==
    /\ \E d \in WindowInputs, f \in Filenames : InitParsers({1}, [i \in {1} |-> d], f)
    /\ probe = NoProbe

\* one parser, on a buffer with one field of every width and type
InitWidths ==
    /\ \E d \in WidthInputs, f \in Filenames : InitParsers({1}, [i \in {1} |-> d], f)
    /\ probe = NoProbe

\* one parser, on a buffer with a record under every discriminator byte
InitHeaders ==
    /\ \E d \in HeaderInputs, f \in Filenames : InitParsers({1}, [i \in {1} |-> d], f)
    /\ probe = NoProbe

\* one parser, on a buffer of definition-and-data pairs
InitRouting ==
    /\ \E d \in RoutedInputs, f \in Filenames : InitParsers({1}, [i \in {1} |-> d], f)
    /\ probe = NoProbe

\* no parser; a type tag and a tag with the same low five bits to look up
InitTypes ==
    /\ InitParsers({}, <<>>, "")
    /\ \E tag \in Bytes, k \in 0..7 :
          probe = [tag |-> tag, twin |-> (tag % 32) + 32 * k, done |-> FALSE,
                   info |-> UnknownType, twin_info |-> UnknownType]

\* line 75: self.definitions belongs to the instance
registry_shared(i) == 1

registry_of(i) == i

(***************************************************************************)
(* parse (lines 87-104) and parse_fit_file (lines 418-426)                 *)
(***************************************************************************)
\* lines 89-94: the header read, the signature test, the decode window
ReadHeader(i) ==
    /\ pc[i] = "start"
    /\ LET h == parse_header(data[i])
       IN  IF h.threw
           THEN /\ result' = [result EXCEPT ![i] = parse_catch(h.exc)]
                /\ pc' = [pc EXCEPT ![i] = "returned"]
                /\ UNCHANGED <<pos, end_pos>>
           ELSE IF ~signature_ok(h.header.signature)
           THEN /\ result' = [result EXCEPT ![i] = ErrorResult("Invalid FIT file signature")]
                /\ pc' = [pc EXCEPT ![i] = "returned"]
                /\ pos' = [pos EXCEPT ![i] = h.header.header_size]
                /\ UNCHANGED end_pos
           ELSE /\ pos' = [pos EXCEPT ![i] = h.header.header_size]
                /\ end_pos' = [end_pos EXCEPT ![i] = h.header.header_size + h.header.data_size]
                /\ pc' = [pc EXCEPT ![i] = "loop"]
                /\ UNCHANGED result
    /\ UNCHANGED <<data, filename, definitions, buffers, last, probe>>

\* line 96: while self.pos < end_pos - 2
InLoop(i) == pc[i] = "loop" /\ pos[i] < end_pos[i] - 2

\* line 126 throws: the cursor is at or past the end of the buffer
RecordIndexError(i) ==
    /\ InLoop(i)
    /\ pos[i] >= Len(data[i])
    /\ pos' = [pos EXCEPT ![i] = resync(pos[i])]
    /\ last' = [last EXCEPT ![i] =
                  Iteration(@, "index", pos[i], 0, TRUE, pos[i], EmptyRecord)]
    /\ UNCHANGED <<data, filename, pc, end_pos, definitions, buffers, result, probe>>

\* lines 132-134 with the handler of lines 99-100: a definition record
DefinitionRecord(i) ==
    /\ InLoop(i)
    /\ pos[i] < Len(data[i])
    /\ record_kind(ByteAt(data[i], pos[i])) = "definition"
    /\ LET slot == local_msg_type(ByteAt(data[i], pos[i]))
           r == parse_definition(data[i], after_header(pos[i]))
       IN  /\ pos' = [pos EXCEPT ![i] = IF r.threw THEN resync(r.pos) ELSE r.pos]
           /\ definitions' =
                 IF r.threw THEN definitions
                 ELSE [definitions EXCEPT ![registry_of(i)] =
                          install_definition(@, slot, r.def)]
           /\ last' = [last EXCEPT ![i] =
                         Iteration(@, "definition", pos[i], slot, r.threw, r.pos,
                                   EmptyRecord)]
    /\ UNCHANGED <<data, filename, pc, end_pos, buffers, result, probe>>

\* _parse_data_record on the slot of the discriminator byte at the cursor
DataStep(i, kind) ==
    LET slot == local_msg_type(ByteAt(data[i], pos[i]))
        defs == definitions[registry_of(i)]
        r == parse_data_record(data[i], after_header(pos[i]), defs[slot])
    IN  IF slot \notin DOMAIN defs
        THEN /\ pos' = [pos EXCEPT ![i] = after_header(pos[i])]
             /\ last' = [last EXCEPT ![i] =
                           Iteration(@, "skipped", pos[i], slot, FALSE,
                                     after_header(pos[i]), EmptyRecord)]
             /\ UNCHANGED buffers
        ELSE /\ pos' = [pos EXCEPT ![i] = r.pos]
             /\ buffers' = [buffers EXCEPT ![i] =
                              store_record(@, r.record.msg_num, r.record)]
             /\ last' = [last EXCEPT ![i] =
                           Iteration(@, kind, pos[i], slot, FALSE, r.pos, r.record)]

\* lines 135-137: a plain data record
DataRecord(i) ==
    /\ InLoop(i)
    /\ pos[i] < Len(data[i])
    /\ record_kind(ByteAt(data[i], pos[i])) = "data"
    /\ DataStep(i, "data")
    /\ UNCHANGED <<data, filename, pc, end_pos, definitions, result, probe>>

\* lines 129-131: a compressed-timestamp data record
CompressedRecord(i) ==
    /\ InLoop(i)
    /\ pos[i] < Len(data[i])
    /\ record_kind(ByteAt(data[i], pos[i])) = "compressed"
    /\ DataStep(i, "compressed")
    /\ UNCHANGED <<data, filename, pc, end_pos, definitions, result, probe>>

\* line 102 with the handler of lines 103-104: the loop is over
BuildResult(i) ==
    /\ pc[i] = "loop"
    /\ ~(pos[i] < end_pos[i] - 2)
    /\ result' = [result EXCEPT ![i] = build_result(data[i], buffers[i])]
    /\ pc' = [pc EXCEPT ![i] = "returned"]
    /\ UNCHANGED <<data, filename, pos, end_pos, definitions, buffers, last, probe>>

\* lines 423-424: result['activity']['filename'] = filename
set_filename(r, f) ==
    IF r.activity # <<>>
    THEN [r EXCEPT !.activity = <<[r.activity[1] EXCEPT !.filename = f]>>]
    ELSE r

\* lines 421-426: parse has returned; an exception it had let through would
\* pass through parse_fit_file too
ReturnResult(i) ==
    /\ pc[i] = "returned"
    /\ result' = [result EXCEPT ![i] =
                    IF @.kind = "raised" THEN @ ELSE set_filename(@, filename[i])]
    /\ pc' = [pc EXCEPT ![i] = "done"]
    /\ UNCHANGED <<data, filename, pos, end_pos, definitions, buffers, last, probe>>

Step(i) ==
    \/ ReadHeader(i)
    \/ RecordIndexError(i)
    \/ DefinitionRecord(i)
    \/ DataRecord(i)
    \/ CompressedRecord(i)
    \/ BuildResult(i)
    \/ ReturnResult(i)

Next ==
    \/ \E i \in Instances : ReadHeader(i)
    \/ \E i \in Instances : RecordIndexError(i)
    \/ \E i \in Instances : DefinitionRecord(i)
    \/ \E i \in Instances : DataRecord(i)
    \/ \E i \in Instances : CompressedRecord(i)
    \/ \E i \in Instances : BuildResult(i)
    \/ \E i \in Instances : ReturnResult(i)

Spec == Init /\ [][Next]_vars

\* parse runs to completion: nothing suspends or cancels it (single-threaded,
\* synchronous), so a step that is possible is taken
FairSpec == InitFair /\ [][Next]_vars /\ \A i \in {1} : WF_vars(Step(i))

SpecIso == InitIso /\ [][Next]_vars

SpecRouting == InitRouting /\ [][Next]_vars

SpecWindow == InitWindow /\ [][Next]_vars

SpecWidths == InitWidths /\ [][Next]_vars

SpecHeaders == InitHeaders /\ [][Next]_vars

\* line 191 applied to the two tags
LookupType ==
    /\ ~probe.done
    /\ probe' = [probe EXCEPT !.done = TRUE, !.info = type_info(probe.tag),
                              !.twin_info = type_info(probe.twin)]
    /\ UNCHANGED <<data, filename, pc, pos, end_pos, definitions, buffers, result, last>>

NextTypes == LookupType

SpecTypes == InitTypes /\ [][NextTypes]_vars

(***************************************************************************)
(* Properties                                                              *)
(***************************************************************************)
Returned(i) == pc[i] \in {"returned", "done"}

\* bytes 8-11 of the buffer are there and spell '.FIT'
HasFitSignature(d) == Len(d) >= 12 /\ SubSeq(d, 9, 12) = FitSignature

\* the sum of the byte widths a schema declares
RECURSIVE SumSizes(_)
SumSizes(fields) ==
    IF fields = <<>> THEN 0 ELSE Head(fields).size + SumSizes(Tail(fields))

\* the identities _store_record routes
Recognized == {0, 18, 19, 20, 21, 23, 55, 78, 227, 275}

DataKinds == {"data", "compressed"}

\* C1: parse_fit_file never raises: whatever the buffer, what it returns is a
\* success payload or a payload that carries an error string.
C1_NeverRaises ==
    \A i \in Instances :
        /\ result[i].kind # "raised"
        /\ Returned(i) =>
              \/ result[i].kind = "ok" /\ result[i].error = ""
              \/ result[i].kind = "error" /\ result[i].error # ""

\* C1 witness: buffers too short for the preamble, and a record stream whose
\* session makes the builder throw, each answered with an error payload.
C1_Witness ==
    \E i \in Instances :
        /\ pc[i] = "done"
        /\ result[i].kind = "error"
        /\ \/ Len(data[i]) = 0
           \/ HasFitSignature(data[i]) /\ result[i].error = "TypeError"

\* C2: with a valid signature the record loop terminates: the cursor never
\* decreases, every loop iteration strictly increases it, iterations happen
\* only below header_size + data_size - 2, the loop is left only at or past
\* that offset, and the parse ends.
C2_LoopTerminates ==
    /\ [][\A i \in Instances :
             /\ pos'[i] >= pos[i] \/ pc[i] = "start"
             /\ last'[i].n # last[i].n =>
                   /\ pos'[i] > pos[i]
                   /\ pos[i] < end_pos[i] - 2
                   /\ last'[i].n = last[i].n + 1
             /\ (pc[i] = "loop" /\ pc'[i] # "loop") => pos[i] >= end_pos[i] - 2]_vars
    /\ <>(\A i \in Instances : pc[i] = "done")

\* C2 witness: a parse that is over after iterations of every kind: a record
\* decoded, a record skipped and an error caught.
C2_Witness ==
    \E i \in Instances :
        /\ pc[i] = "done"
        /\ HasFitSignature(data[i])
        /\ last[i].n >= 3
        /\ last[i].threw
        /\ last[i].installs # <<>>
        /\ pos[i] >= end_pos[i] - 2

\* C3 (as claimed): with a readable preamble and the signature '.FIT', parse
\* returns a success payload whatever the record stream holds.
C3_ValidSignatureSucceeds ==
    \A i \in Instances :
        (Returned(i) /\ HasFitSignature(data[i])) => result[i].kind = "ok"

\* C4: when bytes 8-11 are not '.FIT', parse returns an error payload before
\* the record loop: no record is decoded, the registry and every buffer stay
\* empty, and no section is produced.
C4_BadSignatureAborts ==
    \A i \in Instances :
        (pc[i] # "start" /\ ~HasFitSignature(data[i])) =>
            /\ Returned(i)
            /\ result[i].kind = "error"
            /\ result[i].activity = <<>>
            /\ result[i].wellness = <<>>
            /\ result[i].sleep = <<>>
            /\ last[i] = NoLast
            /\ definitions[i] = EmptyDefinitions
            /\ buffers[i] = EmptyBuffers

\* C4 witness: a whole preamble with another signature, followed by a
\* definition record, has been answered.
C4_Witness ==
    \E i \in Instances :
        /\ pc[i] = "done"
        /\ Len(data[i]) > 12
        /\ ~HasFitSignature(data[i])
        /\ record_kind(ByteAt(data[i], 12)) = "definition"

\* the definition records decoded completely so far on a slot, as indices
\* into the history
InstallsOn(i, slot) ==
    {k \in 1..Len(last[i].installs) :
        plain_slot(ByteAt(data[i], last[i].installs[k])) = slot}

\* the schema the definition record at offset p declares
DeclaredAt(d, p) == parse_definition(d, p + 1).def

\* the latest of them
LatestDeclared(i, slot) ==
    DeclaredAt(data[i],
        last[i].installs[CHOOSE k \in InstallsOn(i, slot) :
                             \A j \in InstallsOn(i, slot) : j <= k])

\* C5: a data record, plain or compressed-timestamp, is decoded only against
\* the most recent definition of its slot: identity, byte order and field
\* list are those of that definition and nothing of an earlier one is merged.
C5_LatestDefinitionOnly ==
    \A i \in Instances :
        last[i].kind \in DataKinds =>
            /\ InstallsOn(i, last[i].slot) # {}
            /\ LET def == LatestDeclared(i, last[i].slot)
               IN  /\ last[i].record.msg_num = def.global_msg_num
                   /\ DOMAIN last[i].record.fields =
                         {def.fields[k].field_def_num : k \in 1..Len(def.fields)}
                   /\ last[i].record =
                         parse_data_record(data[i], last[i].start + 1, def).record

\* C5 witness: a compressed-timestamp record decoded on a slot that was
\* defined twice, with two identities, two byte orders and two field lists.
C5_Witness ==
    \E i \in Instances :
        /\ last[i].kind = "compressed"
        /\ \E j, k \in InstallsOn(i, last[i].slot) :
              LET first == DeclaredAt(data[i], last[i].installs[j])
                  second == DeclaredAt(data[i], last[i].installs[k])
              IN  /\ j < k
                  /\ first.global_msg_num # second.global_msg_num
                  /\ first.endian # second.endian
                  /\ first.fields # second.fields

\* C6: after a record that decodes without a thrown error the cursor is the
\* offset of its discriminator byte plus 1 plus the declared layout: 5 + 3n
\* for a definition record of n fields, the sum of the schema's byte widths
\* for a data record.
C6_CursorFollowsLayout ==
    \A i \in Instances :
        /\ (last[i].kind = "definition" /\ ~last[i].threw) =>
              pos[i] = last[i].start + 1 + 5 + 3 * ByteAt(data[i], last[i].start + 5)
        /\ last[i].kind \in DataKinds =>
              pos[i] = last[i].start + 1
                       + SumSizes(definitions[i][last[i].slot].fields)

\* C6 witness: a data record decoded against a field whose declared width is
\* not the width of its type, and whose bytes the buffer does not all hold.
C6_Witness ==
    \E i \in Instances :
        /\ last[i].kind = "data"
        /\ pos[i] > Len(data[i])
        /\ \E k \in DOMAIN last[i].record.fields : last[i].record.fields[k] = None
        /\ \E k \in 1..Len(definitions[i][last[i].slot].fields) :
              LET f == definitions[i][last[i].slot].fields[k]
              IN  f.size # type_info(f.base_type).size

\* C7 (as claimed): after an error thrown while decoding the record whose
\* discriminator byte is at offset p, the cursor is at p + 1.
C7_ResyncAtNextByte ==
    \A i \in Instances : last[i].threw => pos[i] = last[i].start + 1

\* C8: a data record whose identity is not a recognized one leaves every
\* buffer as it was, and the cursor advances by the record's declared width.
C8_UnrecognizedStoredNowhere ==
    [][\A i \in Instances :
          (/\ last'[i].n # last[i].n
           /\ last'[i].kind \in DataKinds
           /\ last'[i].record.msg_num \notin Recognized) =>
              /\ buffers'[i] = buffers[i]
              /\ pos'[i] = pos[i] + 1
                           + SumSizes(definitions[i][last'[i].slot].fields)]_vars

\* C8 witness: such a record was decoded after a buffer had taken a record.
C8_Witness ==
    \E i \in Instances :
        /\ last[i].kind = "data"
        /\ last[i].record.msg_num \notin Recognized
        /\ last[i].at > last[i].start + 1
        /\ buffers[i] # EmptyBuffers

\* C9: parsing is deterministic and isolated: two parses of one buffer,
\* interleaved with each other in any way, return the same result, identifier
\* included, and a step of one instance changes nothing of another.
C9_Deterministic ==
    /\ [](\A i, j \in Instances :
            (pc[i] = "done" /\ pc[j] = "done" /\ data[i] = data[j]) =>
                result[i] = result[j])
    /\ [][\A i, j \in Instances :
            (i # j /\ (pc'[i] # pc[i] \/ pos'[i] # pos[i])) =>
                /\ definitions'[j] = definitions[j]
                /\ buffers'[j] = buffers[j]
                /\ result'[j] = result[j]]_vars

\* C9 witness: two instances have parsed one buffer into an activity, and the
\* two identifiers are there to compare.
C9_Witness ==
    /\ Instances = {1, 2}
    /\ pc[1] = "done" /\ pc[2] = "done"
    /\ data[1] = data[2]
    /\ result[1].activity # <<>>
    /\ result[2].activity # <<>>
    /\ result[1].activity[1].id.s = data[1]

KindNames ==
    {"enum", "sint8", "uint8", "sint16", "uint16", "sint32", "uint32", "string",
     "float32", "float64", "uint8z", "uint16z", "uint32z", "byte", "unknown"}

\* C10: the lookup is total and reads only the low five bits of the tag: every
\* tag gets a kind and a width, a masked tag outside the table gets the
\* single-byte unsigned default, and two tags that differ only in their top
\* three bits get the same entry.
C10_LookupTotalAndMasked ==
    probe.done =>
        /\ probe.info.name \in KindNames
        /\ probe.info.size \in {1, 2, 4, 8}
        /\ probe.tag % 32 \notin 0..13 =>
              probe.info = [name |-> "unknown", size |-> 1, fmt |-> "B"]
        /\ probe.info = probe.twin_info

\* C10 witness: tag 0x84 and its twin 0x04 were looked up, and tag 0xFF.
C10_Witness ==
    /\ probe.done
    /\ \/ probe.tag = 132 /\ probe.twin = 4 /\ probe.info.name = "uint16"
       \/ probe.tag = 255 /\ probe.twin = 31 /\ probe.info.name = "unknown"

\* a value the output can carry as a number: absent, an integer, a float that
\* is neither an infinity nor a NaN, or the quotient the code computed from one
IsFiniteOrAbsent(v) ==
    CASE v.t = "none" -> TRUE
      [] v.t = "int" -> TRUE
      [] v.t = "float" -> ~FloatIsInf(v.s) /\ ~FloatIsNaN(v.s)
      [] v.t \in {"div", "pace", "avgPace", "altitude", "degrees"} ->
           \A k \in 1..Len(v.l) : v.l[k].t = "int"
      [] OTHER -> FALSE

\* C11 (as claimed): every numeric field of the activity is a finite number
\* or absent, and total time, total distance and moving time are absent, not
\* 0, when the first session record does not carry their field.
C11_AbsentNeverZero ==
    \A i \in Instances :
        (Returned(i) /\ result[i].kind = "ok" /\ result[i].activity # <<>>) =>
            LET activity == result[i].activity[1]
                session == buffers[i].sessions[1]
            IN  /\ \A v \in {activity.totalTime, activity.movingTime,
                             activity.totalDistance, activity.avgSpeed,
                             activity.maxSpeed, activity.avgPace, activity.maxPace} :
                       IsFiniteOrAbsent(v)
                /\ Get(session, 7) = None => activity.totalTime = None
                /\ Get(session, 9) = None => activity.totalDistance = None
                /\ (Get(session, 8) = None /\ Get(session, 7) = None) =>
                       activity.movingTime = None

\* the raw field is present and the output quantity computed from it is absent
Lost(raw, out) == raw # None /\ out = None

\* C12 (as claimed): a physical quantity present in a track-point, lap or
\* session record stays present in the output, a raw 0 included; an output
\* quantity is absent only when the raw field is absent.
C12_PresentStaysPresent ==
    \A i \in Instances :
        (Returned(i) /\ result[i].kind = "ok" /\ result[i].activity # <<>>) =>
            LET activity == result[i].activity[1]
                session == buffers[i].sessions[1]
                records == buffers[i].records
                laps == buffers[i].laps
            IN  /\ ~Lost(Get(session, 14), activity.avgSpeed)
                /\ ~Lost(Get(session, 15), activity.maxSpeed)
                /\ \A k \in 1..Len(records) :
                      /\ ~Lost(Get(records[k], 6), activity.records[k].speed)
                      /\ ~Lost(Get(records[k], 5), activity.records[k].distance)
                      /\ ~Lost(Get(records[k], 2), activity.records[k].altitude)
                      /\ py_equals_int(Get(records[k], 6), 0) =>
                            activity.records[k].pace = None
                /\ \A k \in 1..Len(laps) :
                      /\ ~Lost(Get(laps[k], 7), activity.laps[k].totalTime)
                      /\ ~Lost(Get(laps[k], 9), activity.laps[k].distance)

\* C13 (as claimed): during the record loop the cursor never exceeds
\* header_size + data_size, and no byte of the buffer at an offset at or
\* beyond header_size + data_size - 2 is consumed as part of a record.
C13_CursorInWindow ==
    \A i \in Instances :
        /\ pc[i] = "loop" => pos[i] <= end_pos[i]
        /\ last[i].kind \in DataKinds \cup {"definition"} =>
              Min(last[i].at, Len(data[i])) <= end_pos[i] - 2

\* what the claim gives a non-text field of declared width w and natural type
\* width t: one scalar, an array of w / t scalars, or absent
WidthRule(v, w, t) ==
    IF w = t THEN v.t \in {"int", "float"}
    ELSE IF w > t /\ w % t = 0 THEN v.t = "list" /\ Len(v.l) = w \div t
    ELSE v = None

\* C14 (as claimed): in a data record whose bytes the buffer holds, a non-text
\* field of width w and type width t is one scalar when w = t, an array of
\* w / t scalars when w is a greater multiple of t, and absent otherwise; the
\* record is routed with its other fields decoded.
C14_WidthMismatchAbsent ==
    \A i \in Instances :
        (last[i].kind \in DataKinds /\ last[i].at <= Len(data[i])) =>
            LET fields == definitions[i][last[i].slot].fields
                record == last[i].record
            IN  /\ \A k \in 1..Len(fields) :
                      (/\ type_info(fields[k].base_type).name # "string"
                       /\ \A j \in 1..Len(fields) :
                             j # k => fields[j].field_def_num # fields[k].field_def_num)
                      => WidthRule(record.fields[fields[k].field_def_num],
                                   fields[k].size, type_info(fields[k].base_type).size)
                /\ record.msg_num = 20 =>
                      /\ buffers[i].records # <<>>
                      /\ buffers[i].records[Len(buffers[i].records)] = record

\* the declared field bytes of the data record the loop decoded last run past
\* the end of the buffer
Truncated(i) ==
    /\ last[i].kind \in DataKinds
    /\ last[i].start + 1 + SumSizes(definitions[i][last[i].slot].fields) > Len(data[i])

\* C15 (as claimed): a data record whose declared field bytes are cut by the
\* end of the buffer is a record decode error: after it the cursor is at the
\* offset of its discriminator byte plus 1.
C15_TruncatedDataResyncs ==
    \A i \in Instances : Truncated(i) => pos[i] = last[i].start + 1

\* the byte at the cursor is the discriminator byte of a data record, plain
\* or compressed-timestamp, on a slot with no installed schema
AddressesEmptySlot(i) ==
    /\ pos[i] < Len(data[i])
    /\ LET h == ByteAt(data[i], pos[i])
       IN  \/ h >= 128 /\ (h \div 32) % 4 \notin DOMAIN definitions[i]
           \/ h < 64 /\ h % 16 \notin DOMAIN definitions[i]

\* C16: a data record on a slot with no installed schema moves the cursor one
\* byte past its discriminator byte and changes no buffer and no registry
\* entry, and the next iteration starts at that next byte.
C16_MissingSchemaSkipsOneByte ==
    [][\A i \in Instances :
          /\ (last'[i].n # last[i].n /\ AddressesEmptySlot(i)) =>
                /\ last'[i].kind = "skipped"
                /\ pos'[i] = pos[i] + 1
                /\ buffers'[i] = buffers[i]
                /\ definitions'[i] = definitions[i]
          /\ (last'[i].n # last[i].n /\ last[i].kind = "skipped") =>
                last'[i].start = last[i].start + 1]_vars

\* C16 witness: a plain data record was skipped on an empty slot while the
\* registry and a buffer held entries, after a compressed-timestamp record
\* had been skipped or decoded.
C16_Witness ==
    \E i \in Instances :
        /\ last[i].kind = "skipped"
        /\ ByteAt(data[i], last[i].start) < 64
        /\ pos[i] = last[i].start + 1
        /\ definitions[i] # EmptyDefinitions
        /\ buffers[i] # EmptyBuffers
        /\ \E p \in 12..(last[i].start - 1) : ByteAt(data[i], p) >= 128

\* C17: a discriminator byte h with bit 0x80 set is a compressed-timestamp
\* data record on slot (h >> 5) & 3, whatever bit 0x40 is; otherwise with bit
\* 0x40 set it is a definition record on slot h & 0x0F; otherwise a plain data
\* record on slot h & 0x0F. A compressed-timestamp record is decoded against
\* the schema installed on its slot, and its low 5 bits change no field.
C17_HeaderPriority ==
    \A i \in Instances :
        (last[i].n > 0 /\ last[i].kind # "index") =>
            LET h == ByteAt(data[i], last[i].start)
                installed == last[i].slot \in DOMAIN definitions[i]
            IN  /\ h >= 128 =>
                      /\ last[i].slot = (h \div 32) % 4
                      /\ last[i].kind = IF installed THEN "compressed" ELSE "skipped"
                      /\ installed =>
                            last[i].record =
                               parse_data_record(data[i], last[i].start + 1,
                                   definitions[i][(h \div 32) % 4]).record
                /\ h \in 64..127 =>
                      /\ last[i].slot = h % 16
                      /\ last[i].kind = "definition"
                /\ h < 64 =>
                      /\ last[i].slot = h % 16
                      /\ last[i].kind = IF installed THEN "data" ELSE "skipped"

\* C17 witness: the byte 0xC5, with bits 0x80 and 0x40 and low bits set, was
\* decoded as a compressed-timestamp record against the session schema of
\* slot 2.
C17_Witness ==
    \E i \in Instances :
        /\ last[i].kind = "compressed"
        /\ ByteAt(data[i], last[i].start) = 197
        /\ last[i].slot = 2
        /\ last[i].record.msg_num = 18
        /\ Get(last[i].record, 5) = IntV(0, 1)

\* the buffers that append, the buffers of one slot, and the buffer that takes
\* the records of an identity ("" when none does)
ListBuffers == {"records", "sessions", "laps", "events", "monitoring", "stress", "sleep", "hrv"}

SlotBuffers == {"file_id", "device_info"}

BufferOf(msg_num) ==
    CASE msg_num = 20 -> "records"
      [] msg_num = 19 -> "laps"
      [] msg_num = 18 -> "sessions"
      [] msg_num = 21 -> "events"
      [] msg_num = 55 -> "monitoring"
      [] msg_num = 227 -> "stress"
      [] msg_num = 275 -> "sleep"
      [] msg_num = 78 -> "hrv"
      [] msg_num = 0 -> "file_id"
      [] msg_num = 23 -> "device_info"
      [] OTHER -> ""

\* C18: routing depends only on the identity: a decoded record of a track
\* point, lap, session, event, monitoring, stress, sleep or HRV identity is
\* appended to its buffer, which keeps its earlier entries in their order; a
\* record of file identity or device info replaces the one slot; no other
\* buffer changes, and no other step changes a buffer.
C18_RoutingByIdentity ==
    [][\A i \in Instances :
          IF last'[i].n # last[i].n /\ last'[i].kind \in DataKinds
          THEN LET record == last'[i].record
                   name == BufferOf(record.msg_num)
               IN  /\ name \in ListBuffers =>
                         buffers'[i][name] = Append(buffers[i][name], record)
                   /\ name \in SlotBuffers => buffers'[i][name] = record
                   /\ \A other \in (ListBuffers \cup SlotBuffers) \ {name} :
                         buffers'[i][other] = buffers[i][other]
          ELSE buffers'[i] = buffers[i]]_vars

\* C18 witness: a buffer lists two different records in their arrival order,
\* the later one decoded last, under a compressed-timestamp header.
C18_Witness ==
    \E i \in Instances :
        /\ last[i].kind = "compressed"
        /\ last[i].n = 4
        /\ LET name == BufferOf(last[i].record.msg_num)
               first == parse_data_record(data[i], 22, definitions[i][0]).record
           IN  /\ first # last[i].record
               /\ name \in ListBuffers
               /\ buffers[i][name] = <<first, last[i].record>>

\* C19: in a success payload the activity section is there exactly when a
\* session record was decoded, whatever the type field of the file identity,
\* and its session-level fields are those of the first session record; the
\* wellness section is there exactly when a monitoring or stress record was
\* decoded, and the sleep section exactly when a sleep record was.
C19_SectionsFollowBuffers ==
    \A i \in Instances :
        (Returned(i) /\ result[i].kind = "ok") =>
            LET b == buffers[i]
                r == result[i]
            IN  /\ r.activity # <<>> <=> b.sessions # <<>>
                /\ r.wellness # <<>> <=> (b.monitoring # <<>> \/ b.stress # <<>>)
                /\ r.sleep # <<>> <=> b.sleep # <<>>
                /\ r.activity # <<>> =>
                      /\ r.activity[1].avgSpeed =
                            div_or_none(Get(b.sessions[1], 14), 1000).v
                      /\ [r.activity[1] EXCEPT !.filename = ""] =
                            build_activity(data[i],
                                [b EXCEPT !.sessions = <<b.sessions[1]>>]).v

\* C19 witness: two different session records were decoded, the average
\* speed of the answered activity is that of the first, and no wellness or
\* sleep section came with it.
C19_Witness ==
    \E i \in Instances :
        /\ pc[i] = "done"
        /\ result[i].kind = "ok"
        /\ Len(buffers[i].sessions) = 2
        /\ Get(buffers[i].sessions[1], 14) = IntV(0, 4)
        /\ Get(buffers[i].sessions[2], 14) = IntV(0, 0)
        /\ result[i].activity # <<>>
        /\ result[i].activity[1].avgSpeed # None
        /\ result[i].wellness = <<>>
        /\ result[i].sleep = <<>>

\* C20: the registry changes only when a definition record is decoded
\* completely, and then only at the slot it addresses, where the whole
\* declared schema is installed; a data record, a skipped record, a resync
\* step and a definition record that throws part-way leave every slot as it
\* was.
C20_RegistryFrame ==
    [][\A i \in Instances :
          IF /\ last'[i].n # last[i].n
             /\ last'[i].kind = "definition"
             /\ ~last'[i].threw
          THEN LET slot == last'[i].slot
               IN  /\ DOMAIN definitions'[i] = DOMAIN definitions[i] \cup {slot}
                   /\ \A s \in DOMAIN definitions[i] :
                         s # slot => definitions'[i][s] = definitions[i][s]
                   /\ definitions'[i][slot] = DeclaredAt(data[i], last'[i].start)
                   /\ Len(definitions'[i][slot].fields) =
                         ByteAt(data[i], last'[i].start + 5)
          ELSE definitions'[i] = definitions[i]]_vars

\* C20 witness: a definition record threw after part of its body was read, on
\* a slot that holds a schema, while another slot holds one too.
C20_Witness ==
    \E i \in Instances :
        /\ last[i].kind = "definition"
        /\ last[i].threw
        /\ last[i].at > last[i].start + 1
        /\ last[i].slot \in DOMAIN definitions[i]
        /\ definitions[i][last[i].slot].fields # <<>>
        /\ \E s \in DOMAIN definitions[i] : s # last[i].slot

=============================================================================
